---- MODULE Spec2Model ----
(***************************************************************************)
(* A model of the soiltextureplot classification engine:                   *)
(*   utils.ternary_to_cartesian, PolygonClassifier.from_system,            *)
(*   PolygonClassifier.classify_points and the texture system registry     *)
(*   (systems.get_texture_system, systems.list_texture_systems), and the    *)
(*   SoilTextureTriangle object that ties them to a pandas DataFrame       *)
(*   (triangle.SoilTextureTriangle, plotting.plot_triangle_with_points).   *)
(*                                                                         *)
(* Numbers.  The code computes in IEEE doubles.  The model computes the    *)
(* same expressions in exact rational arithmetic.  A Cartesian point is    *)
(* the record [x2, yh, d] with d > 0 standing for                          *)
(*      x = x2 / (2*d)          y = (sqrt(3)/2) * yh / d                   *)
(* in lowest terms, so two records are equal exactly when the points are.  *)
(* d = 0 stands for a non-finite coordinate (the result of a division by   *)
(* zero, which numpy turns into nan/inf).                                  *)
(***************************************************************************)
EXTENDS Integers, Sequences, FiniteSets, TLC

VARIABLES
    tIn,        \* SpecTransform: the arguments of one ternary_to_cartesian call
    tOut,       \* SpecTransform: what the call produced ("pending" before it)
    registry,   \* systems._SYSTEMS: [keys: insertion order, systems: name -> TextureSystem]
    lookups,    \* SpecRegistry: what each registry call so far returned or raised
    clf,        \* PolygonClassifier objects: id -> outcome of from_system
    callers,    \* one record per caller of classify_points
    tri,        \* SpecTriangle: the SoilTextureTriangle object
    frames,     \* SpecTriangle: the DataFrame objects, by reference
    last        \* SpecTriangle: what the last call on the triangle returned or raised

vars == <<tIn, tOut, registry, lookups, clf, callers, tri, frames, last>>

-----------------------------------------------------------------------------
(* Bounds of the model *)

MaxBatch == 2

MaxLookups == 3

(* Program constants *)

TernarySum == 100

Unknown == "Unknown"

-----------------------------------------------------------------------------
(* Arithmetic helpers *)

Abs(n) == IF n < 0 THEN -n ELSE n

RECURSIVE GCD(_, _)
GCD(a, b) == IF b = 0 THEN a ELSE GCD(b, a % b)

\* The record of the point x2/(2d), (sqrt(3)/2)*yh/d in lowest terms with d > 0;
\* a zero denominator is kept as it is (a non-finite value).
Canon(x2, yh, d) ==
    IF d = 0 THEN [x2 |-> x2, yh |-> yh, d |-> 0]
    ELSE LET g == GCD(GCD(Abs(x2), Abs(yh)), Abs(d))
             s == IF d < 0 THEN -1 ELSE 1
         IN  [x2 |-> (s * x2) \div g, yh |-> (s * yh) \div g, d |-> (s * d) \div g]

IsFinitePoint(p) == p.d # 0

-----------------------------------------------------------------------------
(* utils.ternary_to_cartesian *)

\* Variant with a defect: the zero total is not replaced.
SubstitutedTotalNoGuard(clay, sand, silt) == clay + sand + silt

\* total = clay + sand + silt; total[total == 0] = ternary_sum   (one element)
SubstitutedTotal(clay, sand, silt) ==
    LET total == clay + sand + silt
    IN  IF total = 0 THEN TernarySum ELSE total

\* One element of the result: the components are rescaled by ternary_sum/total,
\* then x = sand + 0.5*silt and y = (sqrt(3)/2)*silt.
ProjectElement(clay, sand, silt) ==
    LET total == SubstitutedTotal(clay, sand, silt)
        sandN == sand * TernarySum      \* numerators over the denominator total
        siltN == silt * TernarySum
    IN  Canon(2 * sandN + siltN, siltN, total)

\* Variant with a defect: scalars are projected like a one-element array.
ternary_to_cartesian_any_ndim(args) ==
    [raised |-> "none",
     xy |-> [i \in 1..Len(args.clay) |->
               ProjectElement(args.clay[i], args.sand[i], args.silt[i])]]

\* The arguments are a record [ndim, clay, sand, silt] of three equal-length
\* sequences: ndim = 1 for three 1-D arrays (or lists), ndim = 0 for three
\* scalars, each held as its one element.  With scalars np.asarray gives 0-d
\* arrays, their sum is a numpy scalar, not an array, and the item assignment
\* total[total == 0] = ternary_sum raises TypeError.
ternary_to_cartesian(args) ==
    IF args.ndim = 0
    THEN [raised |-> "TypeError", xy |-> <<>>]
    ELSE [raised |-> "none",
          xy |-> [i \in 1..Len(args.clay) |->
                    ProjectElement(args.clay[i], args.sand[i], args.silt[i])]]

\* Variant with a defect: clay is rescaled in place (clay *= ternary_sum / total
\* on the caller's own array).
ArraysAfterTransformInPlace(args) ==
    [args EXCEPT !.clay = [i \in 1..Len(args.clay) |->
                             (args.clay[i] * TernarySum)
                                \div SubstitutedTotal(args.clay[i], args.sand[i], args.silt[i])]]

\* The caller's three arrays after the call: the function rebinds its local
\* names to new arrays (np.asarray, clay * ternary_sum / total), total is a
\* new array too, so nothing the caller passed is written to.
ArraysAfterTransform(args) == args

-----------------------------------------------------------------------------
(* Inputs *)

\* (clay, sand, silt) triples
ClayApex == <<100, 0, 0>>
SandApex == <<0, 100, 0>>
SiltApex == <<0, 0, 100>>
Centre   == <<1, 1, 1>>          \* does not sum to 100: normalised to the centroid
ZeroSum  == <<0, 0, 0>>
ZeroSumMixed == <<-50, 50, 0>>   \* sums to 0 with non-zero components
Negative == <<-5, 50, 55>>       \* sums to 100 with a negative component
ClayRich == <<60, 20, 20>>       \* strictly inside the clay corner

TransformSamples == {ClayApex, SandApex, SiltApex, Centre, ZeroSum, ZeroSumMixed, Negative}

SeqsUpTo(S, n) == UNION {[1..m -> S] : m \in 0..n}

Column(rows, j) == [i \in 1..Len(rows) |-> rows[i][j]]

\* clay, sand, silt as three equal-length 1-D arrays
ArrayArgs(rows) ==
    [ndim |-> 1, clay |-> Column(rows, 1), sand |-> Column(rows, 2), silt |-> Column(rows, 3)]

\* clay, sand, silt as three scalars
ScalarArgs(row) ==
    [ndim |-> 0, clay |-> <<row[1]>>, sand |-> <<row[2]>>, silt |-> <<row[3]>>]

-----------------------------------------------------------------------------
(* systems.TextureSystem values *)

\* A TextureSystem is [name, order, polygons, meta]: polygons is the mapping
\* class name -> vertex triples, order the insertion order of its keys.
CS == <<50, 50, 0>>      \* midpoint of the clay-sand side
CL == <<50, 0, 50>>      \* midpoint of the clay-silt side
SL == <<0, 50, 50>>      \* midpoint of the sand-silt side

\* datasets.USDA_TEXTURE_CLASSES: a coarse stand-in of four classes that
\* partition the triangle, each apex a vertex of its own class.
USDA_TEXTURE_CLASSES ==
    [order |-> <<"clay", "sand", "silt", "loam">>,
     polygons |-> [clay |-> <<ClayApex, CS, CL>>,
                   sand |-> <<SandApex, SL, CS>>,
                   silt |-> <<SiltApex, CL, SL, SiltApex>>,
                   loam |-> <<CS, SL, CL>>]]

\* datasets.HYPRES_TEXTURE_CLASSES: a coarse stand-in of two classes.
HYPRES_TEXTURE_CLASSES ==
    [order |-> <<"coarse", "fine">>,
     polygons |-> [coarse |-> <<SandApex, SiltApex, CL, CS>>,
                   fine |-> <<ClayApex, CS, CL>>]]

TextureSystem(name, classes, description) ==
    [name |-> name, order |-> classes.order, polygons |-> classes.polygons,
     meta |-> description]

UsdaSystem == TextureSystem("USDA", USDA_TEXTURE_CLASSES, "USDA description")

HypresSystem == TextureSystem("HYPRES", HYPRES_TEXTURE_CLASSES, "HYPRES description")

\* Systems a caller constructs itself.
\* X lies inside Y; the region above the silt = 50 line belongs to no class.
\* One vertex of Y, (1, 0, 0), does not sum to 100.
OverlapSystem ==
    TextureSystem("OVERLAP",
        [order |-> <<"X", "Y">>,
         polygons |-> [X |-> <<CS, SL, CL>>,
                       Y |-> <<<<1, 0, 0>>, SandApex, SL, CL>>]], "")

\* Y lies inside the first class, which carries the sentinel's name.
SentinelSystem ==
    TextureSystem("SENTINEL",
        [order |-> <<"Unknown", "Y">>,
         polygons |-> [Unknown |-> <<ClayApex, SandApex, SL, CL>>,
                       Y |-> <<CS, SL, CL>>]], "")

\* Polygons of one and of two vertices.
DegenerateSystem ==
    TextureSystem("DEGENERATE",
        [order |-> <<"dot", "line">>,
         polygons |-> [dot |-> <<Centre>>,
                       line |-> <<ClayApex, SandApex>>]], "")

\* A polygon with no vertex at all.
EmptyPolygonSystem ==
    TextureSystem("EMPTY",
        [order |-> <<"none", "X">>,
         polygons |-> [none |-> <<>>,
                       X |-> <<CS, SL, CL>>]], "")

TextureSystems ==
    {UsdaSystem, OverlapSystem, SentinelSystem, DegenerateSystem, EmptyPolygonSystem}

-----------------------------------------------------------------------------
(* matplotlib.path.Path.contains_points, radius 0 *)

\* v.y >= t.y
YFlag(v, t) == v.yh * t.d >= t.yh * v.d

\* The crossing test of the edge v0 -> v1 against the +X ray from t:
\*   if yflag0 != yflag1 and
\*      ((vty1 - ty) * (vtx0 - vtx1) >= (vtx1 - tx) * (vty0 - vty1)) == yflag1
\* with both sides multiplied by the positive 2 * v1.d^2 * v0.d * t.d.
Crosses(v0, v1, t) ==
    /\ YFlag(v0, t) # YFlag(v1, t)
    /\ ( ((v1.yh * t.d - t.yh * v1.d) * (v0.x2 * v1.d - v1.x2 * v0.d)
            >= (v1.x2 * t.d - t.x2 * v1.d) * (v0.yh * v1.d - v1.yh * v0.d))
         <=> YFlag(v1, t) )

\* The path's edges: vertex i to vertex i+1, and the last back to the first.
NextVertex(ring, i) == ring[(i % Len(ring)) + 1]

\* Inside iff the ray crosses an odd number of edges; a non-finite point is
\* never inside.
ContainsPoint(ring, t) ==
    /\ IsFinitePoint(t)
    /\ Cardinality({i \in 1..Len(ring) : Crosses(ring[i], NextVertex(ring, i), t)}) % 2 = 1

-----------------------------------------------------------------------------
(* PolygonClassifier.from_system *)

\* Variant with a defect: the first point is appended whether or not the
\* vertex list is closed already.
CloseRingAlways(xy) == Append(xy, xy[1])

\* Ensure polygon is closed: if not np.allclose(xy[0], xy[-1]): append xy[0]
CloseRing(xy) == IF xy[1] = xy[Len(xy)] THEN xy ELSE Append(xy, xy[1])

\* One class: the projected, closed vertex list handed to Path.
BuildPath(vertices) == CloseRing(ternary_to_cartesian(ArrayArgs(vertices)).xy)

\* Unpacking the transpose of an empty vertex array into clay, sand, silt
\* raises ValueError; nothing else in the construction raises.
from_system(system) ==
    IF \E i \in 1..Len(system.order) : Len(system.polygons[system.order[i]]) = 0
    THEN [ok |-> FALSE, raised |-> "ValueError"]
    ELSE [ok |-> TRUE,
          system |-> system,
          paths |-> [name \in DOMAIN system.polygons |-> BuildPath(system.polygons[name])],
          class_order |-> system.order]

-----------------------------------------------------------------------------
(* PolygonClassifier.classify_points *)

\* Variant with a defect: the slots start as empty strings.
InitialResultBlank(n) == [i \in 1..n |-> ""]

\* result = np.full(n, "Unknown", dtype=object)
InitialResult(n) == [i \in 1..n |-> Unknown]

\* Variant with a defect: the "still Unknown" test reads the first slot for
\* every row.
ClassifyIterationSharedMask(path, class_name, xy, result) ==
    [i \in 1..Len(result) |->
        IF ContainsPoint(path, xy[i]) /\ result[1] = Unknown
        THEN class_name
        ELSE result[i]]

\* One iteration of the loop over self._class_order:
\*   inside = path.contains_points(xy)
\*   mask = inside & (result == "Unknown");  result[mask] = class_name
ClassifyIteration(path, class_name, xy, result) ==
    [i \in 1..Len(result) |->
        IF ContainsPoint(path, xy[i]) /\ result[i] = Unknown
        THEN class_name
        ELSE result[i]]

\* The whole loop, run by one caller alone, from class k on.
RECURSIVE ClassifyFrom(_, _, _, _)
ClassifyFrom(c, xy, result, k) ==
    IF k > Len(c.class_order) THEN result
    ELSE ClassifyFrom(c, xy,
            ClassifyIteration(c.paths[c.class_order[k]], c.class_order[k], xy, result),
            k + 1)

\* classify_points(clay, sand, silt) run alone on classifier c.
classify_points(c, rows) ==
    LET xy == ternary_to_cartesian(ArrayArgs(rows)).xy
    IN  ClassifyFrom(c, xy, InitialResult(Len(xy)), 1)

-----------------------------------------------------------------------------
(* systems._SYSTEMS, get_texture_system, list_texture_systems *)

SYSTEMS ==
    [keys |-> <<"USDA", "HYPRES">>,
     systems |-> [USDA |-> UsdaSystem, HYPRES |-> HypresSystem]]

IsKey(reg, name) == \E i \in 1..Len(reg.keys) : reg.keys[i] = name

\* Variant with a defect: the KeyError of the dict lookup is not caught.
get_texture_system_KeyError(reg, name) ==
    IF IsKey(reg, name)
    THEN [op |-> "get", raised |-> "none", value |-> reg.systems[name], registry |-> reg]
    ELSE [op |-> "get", raised |-> "KeyError", requested |-> name,
          available |-> <<>>, registry |-> reg]

\* The outcome of get_texture_system(name) on registry reg: what it returns
\* or raises, and the registry after the call.  The ValueError's message is
\* f"Unknown texture system {system_name!r}. Available: {list(_SYSTEMS)}":
\* its two variable parts are kept as fields.
get_texture_system(reg, name) ==
    IF IsKey(reg, name)
    THEN [op |-> "get", raised |-> "none", value |-> reg.systems[name], registry |-> reg]
    ELSE [op |-> "get", raised |-> "ValueError", requested |-> name,
          available |-> reg.keys, registry |-> reg]

\* {k: v.meta.get("description", "") for k, v in _SYSTEMS.items()}, as the
\* sequence of its items in iteration order.
list_texture_systems(reg) ==
    [op |-> "list", raised |-> "none",
     value |-> [i \in 1..Len(reg.keys) |->
                  [name |-> reg.keys[i], description |-> reg.systems[reg.keys[i]].meta]],
     registry |-> reg]

-----------------------------------------------------------------------------
(* pandas DataFrames, as far as SoilTextureTriangle uses them *)

None == "None"

\* A DataFrame object is [live, columns, data]: data[j] holds the values of
\* the column named columns[j].  Column names are unique.
NoFrame == [live |-> FALSE, columns |-> <<>>, data |-> <<>>]

DataFrame(columns, data) == [live |-> TRUE, columns |-> columns, data |-> data]

\* name in df.columns
HasColumn(df, name) == \E j \in 1..Len(df.columns) : df.columns[j] = name

\* df[name], for a column that exists
GetColumn(df, name) == df.data[CHOOSE j \in 1..Len(df.columns) : df.columns[j] = name]

\* df[name] = values: replaces the column in place, or appends a new one
SetColumn(df, name, values) ==
    IF HasColumn(df, name)
    THEN [df EXCEPT !.data = [j \in 1..Len(df.columns) |->
                                IF df.columns[j] = name THEN values ELSE df.data[j]]]
    ELSE [df EXCEPT !.columns = Append(df.columns, name),
                    !.data = Append(df.data, values)]

\* len(df)
RowCount(df) == IF Len(df.data) = 0 THEN 0 ELSE Len(df.data[1])

\* The dict {sand_col: "sand", silt_col: "silt", clay_col: "clay"} applied to
\* one column name; of equal keys the last written wins.
RenamedColumn(name, sand_col, silt_col, clay_col) ==
    IF name = clay_col THEN "clay"
    ELSE IF name = silt_col THEN "silt"
    ELSE IF name = sand_col THEN "sand"
    ELSE name

RenamedFrame(df, sand_col, silt_col, clay_col) ==
    [df EXCEPT !.columns = [j \in 1..Len(df.columns) |->
                              RenamedColumn(df.columns[j], sand_col, silt_col, clay_col)]]

\* Variant with a defect: the columns are renamed in the object given
\* (rename(..., inplace=True)), and that object is the one kept.
rename_inplace(heap, src, sand_col, silt_col, clay_col) ==
    [heap |-> [heap EXCEPT ![src] = RenamedFrame(heap[src], sand_col, silt_col, clay_col)],
     ref |-> src]

\* df.rename(columns=...): a new DataFrame object holding the renamed
\* columns; the object at src is left as it was.
rename(heap, src, sand_col, silt_col, clay_col) ==
    [heap |-> [heap EXCEPT !["own"] = RenamedFrame(heap[src], sand_col, silt_col, clay_col)],
     ref |-> "own"]

-----------------------------------------------------------------------------
(* plotting.plot_triangle_with_points *)

\* The parameters of plot_triangle_with_points; it takes no **kwargs.
PlotParameters == {"df", "system", "size_by", "size_min", "size_max", "show_labels", "cmap"}

PlotRequired == {"df", "system"}

CoordinateColumns == {"clay", "sand", "silt"}

\* A call with the keyword arguments kwargs (a record).  Binding the
\* arguments raises TypeError for a keyword that is no parameter or a missing
\* required one; the body reads df["clay"], df["sand"], df["silt"] and
\* returns fig, ax.
plot_triangle_with_points(kwargs, heap) ==
    IF ~(DOMAIN kwargs \subseteq PlotParameters) \/ ~(PlotRequired \subseteq DOMAIN kwargs)
    THEN [raised |-> "TypeError", returned |-> None]
    ELSE IF \E name \in CoordinateColumns : ~HasColumn(heap[kwargs.df], name)
    THEN [raised |-> "KeyError", returned |-> None]
    ELSE [raised |-> "none", returned |-> "FigureAxes"]

-----------------------------------------------------------------------------
(* triangle.SoilTextureTriangle *)

\* SoilTextureTriangle(system_name): the dataclass fields and __post_init__
SoilTextureTriangle(system_name) ==
    LET system == get_texture_system(SYSTEMS, system_name).value
    IN  [system_name |-> system_name,
         df |-> None,
         system |-> system,
         classifier |-> from_system(system)]

\* self.load_dataframe(df, sand_col, silt_col, clay_col), df the object at src
load_dataframe(self, heap, src, sand_col, silt_col, clay_col) ==
    LET r == rename(heap, src, sand_col, silt_col, clay_col)
    IN  [raised |-> "none", returned |-> "self",
         self |-> [self EXCEPT !.df = r.ref], heap |-> r.heap]

\* self.classify()
classify(self, heap) ==
    IF self.df = None
    THEN [raised |-> "ValueError", returned |-> None, self |-> self, heap |-> heap]
    ELSE LET df == heap[self.df]
         IN  IF \E name \in CoordinateColumns : ~HasColumn(df, name)
             THEN [raised |-> "KeyError", returned |-> None, self |-> self, heap |-> heap]
             ELSE LET clay == GetColumn(df, "clay")
                      sand == GetColumn(df, "sand")
                      silt == GetColumn(df, "silt")
                      rows == [i \in 1..Len(clay) |-> <<clay[i], sand[i], silt[i]>>]
                      classes == classify_points(self.classifier, rows)
                  IN  [raised |-> "none", returned |-> self.df, self |-> self,
                       heap |-> [heap EXCEPT ![self.df] =
                                    SetColumn(df, "texture_class", classes)]]

\* self.plot(size_by, size_min, size_max, show_labels, cmap, color_points)
plot(self, heap, args) ==
    IF self.df = None
    THEN [raised |-> "ValueError", returned |-> None]
    ELSE plot_triangle_with_points(
            [df |-> self.df, system |-> self.system, size_by |-> args.size_by,
             size_min |-> args.size_min, size_max |-> args.size_max,
             show_labels |-> args.show_labels, cmap |-> args.cmap,
             color_points |-> args.color_points],
            heap)

-----------------------------------------------------------------------------
(* State machines *)

Callers == {"a", "b"}

ClassifierIds == {1, 2}

ClassifySamples == {ClayApex, Centre, ClayRich}

Batches == SeqsUpTo(ClassifySamples, MaxBatch)

RequestedNames == {"USDA", "HYPRES", "FAO", "usda"}

NoCall == [called |-> FALSE]

Absent == [status |-> "absent"]

Idle == [pc |-> "idle"]

NoArgs == [ndim |-> 1, clay |-> <<>>, sand |-> <<>>, silt |-> <<>>]

\* The two DataFrame objects of SpecTriangle: the one the caller passed to
\* load_dataframe last, and the triangle's own.
FrameRefs == {"passed", "own"}

\* Column names of the DataFrames callers pass.
Layouts == {<<"clay", "sand", "silt">>, <<"Sand_pct", "Silt_pct", "Clay_pct">>}

\* The rows of the DataFrames callers pass.
FrameSamples == {Centre, ClayRich}

\* The DataFrames callers pass: three numeric columns, up to MaxBatch rows.
CallerFrames ==
    {DataFrame(columns, <<Column(rows, 1), Column(rows, 2), Column(rows, 3)>>) :
        columns \in Layouts, rows \in SeqsUpTo(FrameSamples, MaxBatch)}

\* The column names callers give load_dataframe: the defaults, or their own.
ColumnArgs ==
    {[sand_col |-> "sand", silt_col |-> "silt", clay_col |-> "clay"],
     [sand_col |-> "Sand_pct", silt_col |-> "Silt_pct", clay_col |-> "Clay_pct"]}

\* plot()'s defaults
PlotDefaults ==
    [size_by |-> None, size_min |-> 40, size_max |-> 160, show_labels |-> TRUE,
     cmap |-> None, color_points |-> "black"]

\* The arguments callers give plot
PlotArgs ==
    [size_by : {None, "clay"}, size_min : {40}, size_max : {160},
     show_labels : BOOLEAN, cmap : {None, "viridis"}, color_points : {"black", "red"}]

NoTriangleCall == [op |-> "none", raised |-> "none", returned |-> None, args |-> PlotDefaults]

\* No SoilTextureTriangle has been constructed.
NoTriangleYet ==
    /\ tri = [system_name |-> None, df |-> None]
    /\ frames = [ref \in FrameRefs |-> NoFrame]
    /\ last = NoTriangleCall

(* ---- ternary_to_cartesian alone ---- *)

InitTransform ==
    /\ tIn \in {ArrayArgs(rows) : rows \in SeqsUpTo(TransformSamples, MaxBatch)}
               \cup {ScalarArgs(row) : row \in TransformSamples}
    /\ tOut = NoCall
    /\ registry = SYSTEMS
    /\ lookups = <<>>
    /\ clf = [id \in ClassifierIds |-> Absent]
    /\ callers = [c \in Callers |-> Idle]
    /\ NoTriangleYet

Transform ==
    /\ ~tOut.called
    /\ LET r == ternary_to_cartesian(tIn)
       IN  tOut' = [called |-> TRUE, raised |-> r.raised, xy |-> r.xy,
                    arrays |-> IF r.raised = "none" THEN ArraysAfterTransform(tIn) ELSE tIn]
    /\ UNCHANGED <<tIn, registry, lookups, clf, callers, tri, frames, last>>

NextTransform == Transform

SpecTransform == InitTransform /\ [][NextTransform]_vars

(* ---- the registry ---- *)

InitRegistry ==
    /\ tIn = NoArgs
    /\ tOut = NoCall
    /\ registry = SYSTEMS
    /\ lookups = <<>>
    /\ clf = [id \in ClassifierIds |-> Absent]
    /\ callers = [c \in Callers |-> Idle]
    /\ NoTriangleYet

GetTextureSystem(name) ==
    /\ Len(lookups) < MaxLookups
    /\ LET r == get_texture_system(registry, name)
       IN  /\ lookups' = Append(lookups, [name |-> name, outcome |-> r])
           /\ registry' = r.registry
    /\ UNCHANGED <<tIn, tOut, clf, callers, tri, frames, last>>

ListTextureSystems ==
    /\ Len(lookups) < MaxLookups
    /\ LET r == list_texture_systems(registry)
       IN  /\ lookups' = Append(lookups, [name |-> "", outcome |-> r])
           /\ registry' = r.registry
    /\ UNCHANGED <<tIn, tOut, clf, callers, tri, frames, last>>

NextRegistry ==
    \/ \E name \in RequestedNames : GetTextureSystem(name)
    \/ ListTextureSystems

SpecRegistry == InitRegistry /\ [][NextRegistry]_vars

(* ---- classifiers and their callers ---- *)

Init ==
    /\ tIn = NoArgs
    /\ tOut = NoCall
    /\ registry = SYSTEMS
    /\ lookups = <<>>
    /\ clf = [id \in ClassifierIds |-> Absent]
    /\ callers = [c \in Callers |-> Idle]
    /\ NoTriangleYet

\* The classifiers a caller holds a reference to: caller "a" its own, caller
\* "b" any (the callers are interchangeable, so this loses no interleaving).
References(c) == IF c = "a" THEN {1} ELSE ClassifierIds

\* PolygonClassifier.from_system(system); the outcome of the n-th call is kept
\* under id n.  A behaviour follows one TextureSystem: every call is given the
\* system the first call was given.
FromSystem(id, system) ==
    /\ clf[id].status = "absent"
    /\ \A j \in ClassifierIds : j < id => clf[j].status # "absent" /\ clf[j].system = system
    /\ LET r == from_system(system)
       IN  clf' = [clf EXCEPT ![id] =
                IF r.ok
                THEN [status |-> "built", system |-> r.system, paths |-> r.paths,
                      class_order |-> r.class_order]
                ELSE [status |-> "raised", raised |-> r.raised, system |-> system]]
    /\ UNCHANGED <<tIn, tOut, registry, lookups, callers, tri, frames, last>>

\* classify_points up to the loop: xy, n, result.
ClassifyBegin(c, id, rows) ==
    /\ callers[c].pc = "idle"
    /\ id \in References(c)
    /\ clf[id].status = "built"
    /\ LET args == ArrayArgs(rows)
           t == ternary_to_cartesian(args)
       IN  callers' = [callers EXCEPT ![c] =
                [pc |-> IF Len(clf[id].class_order) = 0 THEN "done" ELSE "loop",
                 clf |-> id,
                 given |-> rows,
                 arrays |-> ArraysAfterTransform(args),
                 xy |-> t.xy,
                 result |-> InitialResult(Len(t.xy)),
                 k |-> 1]]
    /\ UNCHANGED <<tIn, tOut, registry, lookups, clf, tri, frames, last>>

\* One iteration of the loop; the last one is followed by return result.
ClassifyStep(c) ==
    /\ callers[c].pc = "loop"
    /\ LET me == callers[c]
           self == clf[me.clf]
           class_name == self.class_order[me.k]
       IN  callers' = [callers EXCEPT ![c] =
                [me EXCEPT !.result = ClassifyIteration(self.paths[class_name], class_name,
                                                        me.xy, me.result),
                           !.k = me.k + 1,
                           !.pc = IF me.k = Len(self.class_order) THEN "done" ELSE "loop"]]
    /\ UNCHANGED <<tIn, tOut, registry, lookups, clf, tri, frames, last>>

Next ==
    \/ \E id \in ClassifierIds, system \in TextureSystems : FromSystem(id, system)
    \/ \E c \in Callers, id \in ClassifierIds :
          /\ callers[c].pc = "idle"
          /\ \E rows \in Batches : ClassifyBegin(c, id, rows)
    \/ \E c \in Callers : ClassifyStep(c)

Spec == Init /\ [][Next]_vars

(* ---- one SoilTextureTriangle and its caller ---- *)

InitTriangle ==
    /\ tIn = NoArgs
    /\ tOut = NoCall
    /\ registry = SYSTEMS
    /\ lookups = <<>>
    /\ clf = [id \in ClassifierIds |-> Absent]
    /\ callers = [c \in Callers |-> Idle]
    /\ tri \in {SoilTextureTriangle(system_name) : system_name \in {"USDA", "HYPRES"}}
    /\ frames = [ref \in FrameRefs |-> NoFrame]
    /\ last = NoTriangleCall

\* The caller builds the DataFrame f and calls
\* tri.load_dataframe(f, sand_col, silt_col, clay_col).
LoadDataframe(f, cols) ==
    /\ LET r == load_dataframe(tri, [frames EXCEPT !["passed"] = f], "passed",
                               cols.sand_col, cols.silt_col, cols.clay_col)
       IN  /\ tri' = r.self
           /\ frames' = r.heap
           /\ last' = [op |-> "load_dataframe", raised |-> r.raised,
                       returned |-> r.returned, args |-> PlotDefaults]
    /\ UNCHANGED <<tIn, tOut, registry, lookups, clf, callers>>

\* tri.classify()
Classify ==
    /\ LET r == classify(tri, frames)
       IN  /\ tri' = r.self
           /\ frames' = r.heap
           /\ last' = [op |-> "classify", raised |-> r.raised,
                       returned |-> r.returned, args |-> PlotDefaults]
    /\ UNCHANGED <<tIn, tOut, registry, lookups, clf, callers>>

\* tri.plot(**args)
Plot(args) ==
    /\ LET r == plot(tri, frames, args)
       IN  last' = [op |-> "plot", raised |-> r.raised, returned |-> r.returned,
                    args |-> args]
    /\ UNCHANGED <<tIn, tOut, registry, lookups, clf, callers, tri, frames>>

NextTriangle ==
    \/ \E f \in CallerFrames, cols \in ColumnArgs : LoadDataframe(f, cols)
    \/ Classify
    \/ \E args \in PlotArgs : Plot(args)

SpecTriangle == InitTriangle /\ [][NextTriangle]_vars

-----------------------------------------------------------------------------
(* Properties *)

Started(c) == callers[c].pc \in {"loop", "done"}

Done(c) == callers[c].pc = "done"

\* The classifier caller c is running on.
Self(c) == clf[callers[c].clf]

ClassNames(system) == {system.order[k] : k \in 1..Len(system.order)}

\* The positions in the class order of the classes whose polygon contains t.
Containing(self, t) ==
    {k \in 1..Len(self.class_order) : ContainsPoint(self.paths[self.class_order[k]], t)}

Least(S) == CHOOSE m \in S : \A n \in S : m <= n

\* C1: a sample inside the polygons of several classes is given the class
\* that comes earliest in the class order: from the iteration of that class
\* on, through every later iteration and in the returned array, its slot holds
\* that class, whatever the class names are.
C1_EarliestClassWins ==
    \A c \in Callers : Started(c) =>
        \A i \in 1..Len(callers[c].result) :
            LET seen == {k \in Containing(Self(c), callers[c].xy[i]) : k < callers[c].k}
            IN  seen # {} => callers[c].result[i] = Self(c).class_order[Least(seen)]

\* C2: a call on N rows holds N labels, label i being that of row i (the
\* label the row gets when classified on its own), each a class name of the
\* system or "Unknown"; with N = 0 the result is empty.
C2_OneLabelPerRow ==
    \A c \in Callers : Started(c) =>
        /\ Len(callers[c].result) = Len(callers[c].given)
        /\ \A i \in 1..Len(callers[c].result) :
              callers[c].result[i] \in ClassNames(Self(c).system) \cup {"Unknown"}
        /\ Done(c) =>
              \A i \in 1..Len(callers[c].given) :
                  callers[c].result[i] = classify_points(Self(c), <<callers[c].given[i]>>)[1]

C2_Witness ==
    /\ Done("a") /\ callers["a"].given = <<>> /\ callers["a"].result = <<>>
    /\ Done("b") /\ Len(callers["b"].given) = 2
    /\ callers["b"].result[1] = "Unknown" /\ callers["b"].result[2] # "Unknown"

\* C3: in the returned array a sample is labelled "Unknown" exactly when no
\* polygon of the system contains it.
C3_UnknownIffInsideNone ==
    \A c \in Callers : Done(c) =>
        \A i \in 1..Len(callers[c].result) :
            (Containing(Self(c), callers[c].xy[i]) = {}) <=> (callers[c].result[i] = "Unknown")

\* C4: get_texture_system returns the registered system for "USDA" and
\* "HYPRES" and raises ValueError naming the request and the available
\* systems for any other name; list_texture_systems always lists USDA then
\* HYPRES; the registry is the same after every call.
C4_RegistryLookup ==
    /\ registry = SYSTEMS
    /\ \A n \in 1..Len(lookups) :
          LET name == lookups[n].name
              r == lookups[n].outcome
          IN  /\ r.registry = SYSTEMS
              /\ r.op = "get" /\ name \in {"USDA", "HYPRES"} =>
                    r.raised = "none" /\ r.value.name = name
                        /\ r.value = SYSTEMS.systems[name]
              /\ r.op = "get" /\ name \notin {"USDA", "HYPRES"} =>
                    r.raised = "ValueError" /\ r.requested = name
                        /\ r.available = <<"USDA", "HYPRES">>
              /\ r.op = "list" =>
                    r.raised = "none"
                        /\ [k \in 1..Len(r.value) |-> r.value[k].name] = <<"USDA", "HYPRES">>

C4_Witness ==
    /\ Len(lookups) = 3
    /\ lookups[1].outcome.op = "list"
    /\ lookups[2].outcome.op = "get" /\ lookups[2].outcome.raised = "ValueError"
    /\ lookups[3].outcome.op = "list" /\ lookups[3].outcome.value = lookups[1].outcome.value

\* C5: no classifier exists that holds a polygon of fewer than 3 vertices:
\* from_system raises for every system that has one.
C5_NoDegenerateClassifier ==
    \A id \in ClassifierIds : clf[id].status = "built" =>
        \A k \in 1..Len(clf[id].system.order) :
            Len(clf[id].system.polygons[clf[id].system.order[k]]) >= 3

\* C6: an apex sample, (100,0,0), (0,100,0) or (0,0,100), is labelled with a
\* class whose polygon (of at least 3 vertices) has that apex as a vertex, not
\* "Unknown": a point at a vertex of a polygon counts as inside it.
C6_ApexInsideItsClass ==
    \A c \in Callers : Done(c) =>
        \A i \in 1..Len(callers[c].given) :
            LET system == Self(c).system
                apexClasses ==
                    {name \in ClassNames(system) :
                        /\ Len(system.polygons[name]) >= 3
                        /\ \E j \in 1..Len(Self(c).paths[name]) :
                              Self(c).paths[name][j] = callers[c].xy[i]}
            IN  callers[c].given[i] \in {ClayApex, SandApex, SiltApex} /\ apexClasses # {}
                    => callers[c].result[i] \in apexClasses

\* C7 as stated: ternary_to_cartesian raises for no finite input, scalars or
\* equal-length sequences.
C7_NeverRaises == tOut.called => tOut.raised = "none"

\* C7 as amended: for equal-length sequences ternary_to_cartesian returns one
\* coordinate pair per element and does not raise; for scalars it raises
\* TypeError.
C7_RaisesOnlyForScalars ==
    tOut.called =>
        /\ tIn.ndim = 1 => tOut.raised = "none" /\ Len(tOut.xy) = Len(tIn.clay)
        /\ tIn.ndim = 0 => tOut.raised = "TypeError"

C7_Witness ==
    /\ tOut.called /\ tIn.ndim = 1 /\ Len(tIn.clay) = 2
    /\ tOut.raised = "none" /\ Len(tOut.xy) = 2
    /\ tIn.clay[1] + tIn.sand[1] + tIn.silt[1] = 0

C9_NoSideEffects ==
    [][ /\ \A id \in ClassifierIds : clf[id].status = "built" => clf'[id] = clf[id]
        /\ \A c \in Callers :
              /\ callers'[c].pc \in {"loop", "done"} =>
                    callers'[c].arrays = ArrayArgs(callers'[c].given)
              /\ callers'[c].pc = "done" =>
                    callers'[c].result =
                        classify_points(clf'[callers'[c].clf], callers'[c].given) ]_vars

C9_Witness ==
    /\ callers["a"].pc = "loop" /\ callers["b"].pc = "loop"
    /\ callers["a"].clf = callers["b"].clf
    /\ callers["a"].k = 2 /\ callers["b"].k = 2
    /\ callers["a"].given = <<Centre>> /\ callers["b"].given = <<ClayRich, ClayApex>>

\* C10: two finished calls on classifiers built from the same system give
\* the same triple the same label, at whatever positions of whatever batches
\* the triple stands.
C10_LabelDependsOnTripleOnly ==
    \A c1 \in Callers, c2 \in Callers :
        Done(c1) /\ Done(c2) /\ Self(c1).system = Self(c2).system =>
            \A i \in 1..Len(callers[c1].given), j \in 1..Len(callers[c2].given) :
                callers[c1].given[i] = callers[c2].given[j]
                    => callers[c1].result[i] = callers[c2].result[j]

C10_Witness ==
    /\ Done("a") /\ Done("b") /\ callers["a"].clf # callers["b"].clf
    /\ callers["a"].given = <<Centre, ClayApex>>
    /\ callers["b"].given = <<ClayRich, Centre>>
    /\ callers["a"].result[1] = callers["b"].result[2]
    /\ callers["a"].result[1] # "Unknown"

\* C11: plot raises ValueError when no data is loaded and nothing else ever;
\* with data loaded it returns the (Figure, Axes) pair, whatever arguments it
\* is given; every keyword it forwards is a parameter of
\* plot_triangle_with_points.
C11_PlotReturnsFigureAxes ==
    last.op = "plot" =>
        IF tri.df = None
        THEN last.raised = "ValueError"
        ELSE last.raised = "none" /\ last.returned = "FigureAxes"

\* The labels a triangle's classifier can give.
Labels(self) == ClassNames(self.system) \cup {Unknown}

HasCoordinates(df) == \A name \in CoordinateColumns : HasColumn(df, name)

\* after is before with a 'texture_class' column of one label per row set,
\* every other column as it was.
LabelledOncePerRow(self, before, after) ==
    /\ HasColumn(after, "texture_class")
    /\ LET classes == GetColumn(after, "texture_class")
       IN  /\ Len(classes) = RowCount(before)
           /\ \A i \in 1..Len(classes) : classes[i] \in Labels(self)
           /\ after = SetColumn(before, "texture_class", classes)

\* The DataFrame object the caller passed to load_dataframe is as callers
\* build them (the caller's column names, no 'texture_class') after the call,
\* and no later call changes it.
PassedFrameKept ==
    IF last'.op = "load_dataframe"
    THEN frames'["passed"] \in CallerFrames
    ELSE frames'["passed"] = frames["passed"]

\* A successful classify call: it returns the held DataFrame, which now has
\* one label per row; on a frame that was classified since it was loaded it
\* changes nothing.
ClassifyReturnsLabelled ==
    /\ last'.raised = "none"
    /\ last'.returned = tri.df
    /\ tri' = tri
    /\ LabelledOncePerRow(tri, frames[tri.df], frames'[tri.df])
    /\ HasColumn(frames[tri.df], "texture_class") => frames' = frames

\* C12 as stated: classify raises ValueError, changing nothing, exactly when
\* no data is loaded; in every other case it returns the held DataFrame with
\* one label per row, the same on a repeated call; and no step changes the
\* DataFrame object passed to load_dataframe.
C12_ClassifyRaisesIffNotLoaded ==
    [][ /\ Classify =>
              IF tri.df = None
              THEN last'.raised = "ValueError" /\ tri' = tri /\ frames' = frames
              ELSE ClassifyReturnsLabelled
        /\ PassedFrameKept ]_vars

\* C12, amended: as above when the held DataFrame has 'clay', 'sand' and
\* 'silt' columns after the renaming; when one of them is missing classify
\* raises KeyError and changes nothing.
C12_ClassifyOutcomes ==
    [][ /\ Classify =>
              IF tri.df = None
              THEN last'.raised = "ValueError" /\ tri' = tri /\ frames' = frames
              ELSE IF HasCoordinates(frames[tri.df])
              THEN ClassifyReturnsLabelled
              ELSE last'.raised = "KeyError" /\ tri' = tri /\ frames' = frames
        /\ PassedFrameKept ]_vars

C12_Witness ==
    /\ last.op = "classify" /\ last.raised = "none" /\ last.returned = "own"
    /\ tri.df = "own"
    /\ frames["passed"].columns = <<"Sand_pct", "Silt_pct", "Clay_pct">>
    /\ frames["passed"].data = <<<<60, 1>>, <<20, 1>>, <<20, 1>>>>
    /\ frames["own"].columns = <<"sand", "silt", "clay", "texture_class">>
    /\ Len(frames["own"].data[4]) = 2
    /\ frames["own"].data[4][1] # frames["own"].data[4][2]

\* C13: in every built classifier the stored polygon of every class is a
\* closed ring (first point = last point); it is the projected vertex list in
\* its original order, followed by one copy of its first point exactly when
\* that list was not closed already.
C13_ClosedRings ==
    \A id \in ClassifierIds :
        clf[id].status = "built" =>
            \A name \in ClassNames(clf[id].system) :
                LET xy == ternary_to_cartesian(ArrayArgs(clf[id].system.polygons[name])).xy
                    ring == clf[id].paths[name]
                    closed == xy[1] = xy[Len(xy)]
                IN  /\ ring[1] = ring[Len(ring)]
                    /\ Len(ring) = Len(xy) + (IF closed THEN 0 ELSE 1)
                    /\ SubSeq(ring, 1, Len(xy)) = xy
                    /\ ~closed => ring[Len(ring)] = xy[1]

\* A classifier built from a system with a class given closed (silt: four
\* vertices, four stored points) and one given open (clay: three vertices,
\* four stored points).
C13_Witness ==
    \E id \in ClassifierIds :
        /\ clf[id].status = "built"
        /\ clf[id].system = UsdaSystem
        /\ Len(UsdaSystem.polygons["silt"]) = 4 /\ Len(clf[id].paths["silt"]) = 4
        /\ Len(UsdaSystem.polygons["clay"]) = 3 /\ Len(clf[id].paths["clay"]) = 4
        /\ clf[id].paths["clay"][4] = clf[id].paths["clay"][1]

====
